---- MODULE Spec2Model ----
(***************************************************************************)
(* Model of the risk dashboard in src/app.py: the seeded generators of     *)
(* positions and of the risk history, the st.cache_data memoization of the *)
(* history, the linear scenario engine, the scenario library, the summary  *)
(* table, and the Streamlit script (one rerun per widget event, one thread *)
(* per session).                                                           *)
(*                                                                         *)
(* Numbers.  Every float of the program is an integer count of a fixed     *)
(* unit here, and every float operation rounds its exact result to         *)
(* SigBits significant bits, ties to even, as IEEE arithmetic does (the    *)
(* program's floats carry 53 bits; TLC's integers leave room for fewer).   *)
(*   MarketValueUSD  in units of 50,000 USD                                *)
(*   Beta_SPX, Duration, Delta_Oil  in units of 0.01                       *)
(*   decimal shocks (spx_shock, oil_shock, rates_shock_decimal) in 1/10000 *)
(*   percentages in percent, rates_shock_bps in basis points               *)
(*   ScenarioPnL  in units of 0.05 USD (= 50,000 * 0.01 * 0.0001)          *)
(* The draws of the generators lie on these grids, so .round(2) and        *)
(* .round(3) of lines 38-41 leave them as they are.                        *)
(***************************************************************************)
EXTENDS Integers, Sequences, FiniteSets, TLC

VARIABLES
    rng,                \* np.random's process-wide generator state
    cache,              \* st.cache_data entries of generate_dummy_risk_history
    missLog,            \* per portfolio, the "Cache miss" lines printed (line 51)
    computeLock,        \* st.cache_data's per-key compute lock: its holder
    selected_portfolio, \* per session, the portfolio selectbox
    scenario_name,      \* per session, the scenario selectbox
    custom,             \* per session, the three number inputs
    run_button,         \* per session, the button's value in the last script run
    session_state,      \* per session, st.session_state
    df_hist,            \* per session, the history the last script run got
    generated,          \* per portfolio, the calls of generate_dummy_positions: the
                        \* books they returned and whether there was more than one
    pc,                 \* per session, the script thread's position
    loc,                \* per session, the script thread's local variables
    runs,               \* per session, script runs started (concurrent model)
    eng                 \* the last direct call of the engine and what it gave

vars == <<rng, cache, missLog, computeLock, selected_portfolio, scenario_name,
          custom, run_button, session_state, df_hist, generated, pc, loc, runs,
          eng>>

----------------------------------------------------------------------------
(* Bounds of the model *)

\* Significant bits a float keeps (the program's float64 keeps 53).
SigBits == 14
\* Portfolios offered (the program offers 5, line 124).
NPortfolios == 2
\* Days of history generated (the program generates 504, line 55).
HistLen == 3
\* Sessions (script threads) of the concurrent model.
NSessions == 2
\* Script runs a session starts in the concurrent model.
MaxRuns == 1

----------------------------------------------------------------------------
(* Optional values: None is <<>>, a value x is <<x>> *)

None == <<>>
Some(x) == <<x>>

----------------------------------------------------------------------------
(* Floating point *)

Abs(x) == IF x < 0 THEN -x ELSE x

\* Bits of the natural number n
BitLen(n) == Cardinality({k \in 0..30 : 2^k <= n})

\* The float nearest to the natural number a: SigBits significant bits, ties to even
RoundNat(a) ==
    LET q == 2^(BitLen(a) - SigBits)
        lo == (a \div q) * q
        up == \/ 2 * (a - lo) > q
              \/ 2 * (a - lo) = q /\ (a \div q) % 2 = 1
    IN  IF a < 2^SigBits THEN a ELSE IF up THEN lo + q ELSE lo

\* The float nearest to the exact value x
Round(x) ==
    CHOOSE r \in {IF v < 0 THEN -RoundNat(-v) ELSE RoundNat(v) : v \in {x}} : TRUE

FAdd(a, b) == Round(a + b)
FSub(a, b) == Round(a - b)
FMul(a, b) == Round(a * b)

\* Units of a decimal shock per 1.0
DecimalScale == 10000
\* x / d as a decimal shock, x a percentage (d = 100) or basis points (d = 10000)
FDivToDecimal(x, d) == Round((x * DecimalScale) \div d)

\* Series.sum(): the float sum of a sequence, left to right
RECURSIVE FSumTo(_, _)
FSumTo(xs, k) == IF k = 0 THEN 0 ELSE FAdd(FSumTo(xs, k - 1), xs[k])

\* (the set binds v to the value of xs, which is then computed once)
FSum(xs) == CHOOSE r \in {FSumTo(v, Len(v)) : v \in {xs}} : TRUE

RECURSIVE IntSumTo(_, _)
IntSumTo(xs, k) == IF k = 0 THEN 0 ELSE IntSumTo(xs, k - 1) + xs[k]

IntSum(xs) == CHOOSE r \in {IntSumTo(v, Len(v)) : v \in {xs}} : TRUE

----------------------------------------------------------------------------
(* np.random: one process-wide generator.  A linear congruential generator *)
(* stands for the Mersenne twister: seed() sets the state from the seed    *)
(* alone, every draw reads the state and advances it.                      *)

RngMod == 32768
RngMul == 20021
RngInc == 13849

\* One draw: the state after it
RngStep(r) == (RngMul * r + RngInc) % RngMod

\* n draws at once: <<a, c>> with RngStep^n(r) = (a * r + c) % RngMod
RECURSIVE RngJump(_)
RngJump(n) ==
    IF n = 0 THEN <<1, 0>>
    ELSE IF n % 2 = 0
    THEN LET h == RngJump(n \div 2)
         IN  <<(h[1] * h[1]) % RngMod, (h[1] * h[2] + h[2]) % RngMod>>
    ELSE LET h == RngJump(n - 1)
         IN  <<(RngMul * h[1]) % RngMod, (RngMul * h[2] + RngInc) % RngMod>>

\* The state after n draws from state r
RngAdvance(r, n) == LET j == RngJump(n) IN (j[1] * r + j[2]) % RngMod

\* np.random.seed(seed)
RandomSeed(seed) == RngStep(RngStep(seed % RngMod))

\* The number a state gives (its high bits)
RngOut(r) == r \div 8

\* np.random.randint(low, high)
RandInt(r, low, high) == low + (RngOut(r) % (high - low))

\* np.random.choice(["Equity", "Fixed Income", "FX", "Commodity"], n,
\*                  p=[0.5, 0.2, 0.15, 0.15])
ChoiceClass(r) ==
    LET u == RngOut(r) % 20
    IN  IF u < 10 THEN "Equity"
        ELSE IF u < 14 THEN "Fixed Income"
        ELSE IF u < 17 THEN "FX"
        ELSE "Commodity"

\* np.random.uniform(low, high), on the integers low..high
Uniform(r, low, high) == low + (RngOut(r) % (high - low + 1))

\* np.random.normal(mean, sd), on mean + sd * {-3..3}
Normal(r, mean, sd) == mean + sd * ((RngOut(r) % 7) - 3)

\* A draw of size n from state r: element i reads the state after i - 1 draws
NormalVec(r, n, mean, sd) == [i \in 1..n |-> Normal(RngAdvance(r, i - 1), mean, sd)]

UniformVec(r, n, low, high) == [i \in 1..n |-> Uniform(RngAdvance(r, i - 1), low, high)]

ChoiceVec(r, n) == [i \in 1..n |-> ChoiceClass(RngAdvance(r, i - 1))]

----------------------------------------------------------------------------
(* Portfolios: portfolio i of 0..NPortfolios-1 is "Portfolio " + chr(ord('A') + i) *)

Portfolios == 0 .. NPortfolios - 1

\* The character codes of "Portfolio "
PortfolioPrefix == <<80, 111, 114, 116, 102, 111, 108, 105, 111, 32>>
OrdA == 65

\* portfolio_list[i], as its character codes
PortfolioName(i) == PortfolioPrefix \o <<OrdA + i>>

\* sum(ord(c) for c in portfolio_name)
SumOrd(name) == IntSum(name)

----------------------------------------------------------------------------
(* generate_dummy_positions, one operator per statement *)

MinPositions == 10
MaxPositions == 30

PositionsSeed(portfolio) == SumOrd(PortfolioName(portfolio))

Mask(b) == IF b THEN 1 ELSE 0
Clip0(x) == IF x < 0 THEN 0 ELSE x

\* Row i of the DataFrame of lines 34-43
PositionsRow(i, asset_class, market_value_usd, beta_eq, beta_other, duration_raw, delta_raw) ==
    [Ticker |-> i - 1,
     AssetClass |-> asset_class,
     MarketValueUSD |-> market_value_usd,
     Beta_SPX |-> beta_eq * Mask(asset_class = "Equity")
                  + beta_other * Mask(asset_class # "Equity"),
     Duration |-> Clip0(duration_raw * Mask(asset_class = "Fixed Income")),
     Delta_Oil |-> delta_raw * Mask(asset_class = "Commodity")]

\* The DataFrame of lines 34-43
PositionsFrame(n, asset_classes, market_values_usd, beta_eq, beta_other, duration_raw, delta_raw) ==
    [i \in 1..n |->
        PositionsRow(i, asset_classes[i], market_values_usd[i], beta_eq[i],
                     beta_other[i], duration_raw[i], delta_raw[i])]

\* Draw k of lines 19-32 (asset classes, market values, the two betas, the
\* duration and the oil delta before masking), n values from state r
PositionsDraw(k, r, n) ==
    CASE k = 1 -> ChoiceVec(r, n)
      [] k = 2 -> UniformVec(r, n, 1, 100)
      [] k = 3 -> NormalVec(r, n, 100, 50)
      [] k = 4 -> NormalVec(r, n, 10, 10)
      [] k = 5 -> NormalVec(r, n, 500, 200)
      [] k = 6 -> NormalVec(r, n, 5, 20)

\* Reseeding variant used to test the determinism claim: the seed is dropped
\* and the draws continue from the state the caller left.
PositionsStartNoSeed(r, portfolio) == r

\* np.random.seed(seed) of line 16: the state the draws start from
PositionsStart(r, portfolio) == RandomSeed(PositionsSeed(portfolio))

\* The whole function, called with the generator in state r:
\* the book returned and the state the generator is left in.
generate_dummy_positions(r, portfolio) ==
    LET r0 == PositionsStart(r, portfolio)
        n == RandInt(r0, MinPositions, MaxPositions)
        r1 == RngStep(r0)
    IN  [df |-> PositionsFrame(n, PositionsDraw(1, r1, n),
                               PositionsDraw(2, RngAdvance(r1, n), n),
                               PositionsDraw(3, RngAdvance(r1, 2 * n), n),
                               PositionsDraw(4, RngAdvance(r1, 3 * n), n),
                               PositionsDraw(5, RngAdvance(r1, 4 * n), n),
                               PositionsDraw(6, RngAdvance(r1, 5 * n), n)),
         rng |-> RngAdvance(r1, 6 * n)]

----------------------------------------------------------------------------
(* generate_dummy_risk_history (the function under the cache) *)

\* nav_start, in units of 1,000 USD
NavStart == 100000

HistorySeed(portfolio) == SumOrd(PortfolioName(portfolio)) + 1

\* a * d for a decimal d (in 1/DecimalScale)
FMulDec(a, d) == Round((a * d) \div DecimalScale)

\* (1 + daily_returns).cumprod(), in 1/DecimalScale
RECURSIVE CumProd(_, _)
CumProd(returns, t) ==
    IF t = 1 THEN DecimalScale + returns[1]
    ELSE FMulDec(CumProd(returns, t - 1), DecimalScale + returns[t])

\* pd.Series(nav).cummax()
RECURSIVE CumMax(_, _)
CumMax(nav, t) ==
    IF t = 1 THEN nav[1]
    ELSE LET m == CumMax(nav, t - 1) IN IF nav[t] > m THEN nav[t] ELSE m

\* The DataFrame of lines 57-75 from the three draws
HistoryRows(nav, var_pct, es_mult) ==
    [t \in 1..HistLen |->
        [Date |-> t,
         NAV |-> nav[t],
         VaR_99_USD |-> FMulDec(nav[t], var_pct[t]),
         ES_99_USD |-> FMulDec(FMulDec(nav[t], var_pct[t]), es_mult[t]),
         Drawdown_Pct |->
             -Round(((CumMax(nav, t) - nav[t]) * DecimalScale)
                    \div CumMax(nav, t))]]

HistoryFrame(daily_returns, var_pct, es_mult) ==
    CHOOSE df \in
        {HistoryRows(nav, var_pct, es_mult) :
            nav \in {[t \in 1..HistLen |-> FMulDec(NavStart, CumProd(r, t))] :
                        r \in {daily_returns}}} : TRUE

\* Draw k of lines 58-61 (daily_returns, var_pct, es_mult) from state r
HistoryDraw(k, r) ==
    CASE k = 1 -> NormalVec(r, HistLen, 5, 100)
      [] k = 2 -> UniformVec(r, HistLen, 100, 300)
      [] k = 3 -> UniformVec(r, HistLen, 12000, 15000)

\* The function body run with the generator in state r
HistoryBody(r, portfolio) ==
    LET r0 == RandomSeed(HistorySeed(portfolio))
    IN  [df |-> HistoryFrame(HistoryDraw(1, r0),
                             HistoryDraw(2, RngAdvance(r0, HistLen)),
                             HistoryDraw(3, RngAdvance(r0, 2 * HistLen))),
         rng |-> RngAdvance(r0, 3 * HistLen)]

----------------------------------------------------------------------------
(* simulate_scenario_pnl.  DataFrames are objects: a heap maps a reference *)
(* to the frame's rows, and a call gets and returns references.            *)

HasColumn(df, c) == \A i \in 1..Len(df) : c \in DOMAIN df[i]

\* df[c] = values: the column is added to, or replaced in, every row
SetColumn(df, c, values) ==
    [i \in 1..Len(df) |->
        [k \in DOMAIN df[i] \cup {c} |-> IF k = c THEN values[i] ELSE df[i][k]]]

\* The columns line 83-87 reads
EngineColumns == {"MarketValueUSD", "Beta_SPX", "Delta_Oil", "Duration"}

\* Variant used to test the sign claim: the duration term added
RowPnLAdded(row, spx_shock, rates_shock_decimal, oil_shock) ==
    FMul(row.MarketValueUSD,
         FAdd(FAdd(FMul(row.Beta_SPX, spx_shock), FMul(row.Delta_Oil, oil_shock)),
              FMul(row.Duration, rates_shock_decimal)))

\* The right-hand side of lines 83-87 for one row
RowPnL(row, spx_shock, rates_shock_decimal, oil_shock) ==
    FMul(row.MarketValueUSD,
         FSub(FAdd(FMul(row.Beta_SPX, spx_shock), FMul(row.Delta_Oil, oil_shock)),
              FMul(row.Duration, rates_shock_decimal)))

\* rates_shock_bps / 10000.0 of line 82
RatesShockDecimal(rates_shock_bps) == FDivToDecimal(rates_shock_bps, 10000)

\* The call: a missing column raises KeyError and changes nothing; otherwise
\* the frame positions_df refers to gets the column and positions_df is returned.
simulate_scenario_pnl(heap, positions_df, spx_shock, rates_shock_bps, oil_shock) ==
    LET df == heap[positions_df]
        rates_shock_decimal == RatesShockDecimal(rates_shock_bps)
        pnl == [i \in 1..Len(df) |->
                   RowPnL(df[i], spx_shock, rates_shock_decimal, oil_shock)]
    IN  IF \E c \in EngineColumns : ~HasColumn(df, c)
        THEN [raised |-> TRUE, heap |-> heap, ret |-> positions_df]
        ELSE [raised |-> FALSE,
              heap |-> [heap EXCEPT ![positions_df] = SetColumn(df, "ScenarioPnL", pnl)],
              ret |-> positions_df]

----------------------------------------------------------------------------
(* PREDEFINED_SCENARIOS *)

Shocks(spx, bps, oil) == [spx_shock |-> spx, rates_shock_bps |-> bps, oil_shock |-> oil]

\* list(PREDEFINED_SCENARIOS.keys())
ScenarioKeys ==
    <<"None (Baseline)", "Market Crash (-15% SPX)", "Rates Shock (+50bps)",
      "Oil Spike (+20%)", "Recession Combo (-10% SPX, -75bps Rates)", "Custom">>

ScenarioNames == {ScenarioKeys[i] : i \in 1..Len(ScenarioKeys)}

PREDEFINED_SCENARIOS ==
    [n \in ScenarioNames |->
        CASE n = "None (Baseline)" -> Some(Shocks(0, 0, 0))
          [] n = "Market Crash (-15% SPX)" -> Some(Shocks(-1500, 0, 0))
          [] n = "Rates Shock (+50bps)" -> Some(Shocks(0, 50, 0))
          [] n = "Oil Spike (+20%)" -> Some(Shocks(0, 0, 2000))
          [] n = "Recession Combo (-10% SPX, -75bps Rates)" ->
                 Some(Shocks(-1000, -75, -1000))
          [] n = "Custom" -> None]

----------------------------------------------------------------------------
(* The run button's handler, lines 244-348 *)

\* x or 0.0
OrZero(x) == IF x = None THEN 0 ELSE x[1]

\* Variant used to test the fallback claim: an unlisted name is not sent to
\* the Baseline but keeps its name and gets the first listed shock
ResolveShocksNoFallback(name, cust) ==
    IF name = "Custom"
    THEN [shocks |-> Shocks(FDivToDecimal(OrZero(cust[1]), 100),
                            OrZero(cust[2]),
                            FDivToDecimal(OrZero(cust[3]), 100)),
          display |-> [name |-> "Custom", args |-> cust]]
    ELSE IF name \in DOMAIN PREDEFINED_SCENARIOS
    THEN [shocks |-> PREDEFINED_SCENARIOS[name][1],
          display |-> [name |-> name, args |-> <<>>]]
    ELSE [shocks |-> Shocks(-1500, 0, 0),
          display |-> [name |-> name, args |-> <<>>]]

\* Variant used to test the custom-resolution claim: the percentages are
\* handed on as they are, not divided by 100
ResolveShocksRawPct(name, cust) ==
    IF name = "Custom"
    THEN [shocks |-> Shocks(FDivToDecimal(OrZero(cust[1]), 1),
                            OrZero(cust[2]),
                            FDivToDecimal(OrZero(cust[3]), 1)),
          display |-> [name |-> "Custom", args |-> cust]]
    ELSE IF name \in DOMAIN PREDEFINED_SCENARIOS
    THEN [shocks |-> PREDEFINED_SCENARIOS[name][1],
          display |-> [name |-> name, args |-> <<>>]]
    ELSE [shocks |-> Shocks(0, 0, 0),
          display |-> [name |-> "None (Baseline)", args |-> <<>>]]

\* Lines 247-260.  custom is <<custom_spx_shock, custom_rates_shock,
\* custom_oil_shock>>, each an optional number.
ResolveShocks(name, cust) ==
    IF name = "Custom"
    THEN [shocks |-> Shocks(FDivToDecimal(OrZero(cust[1]), 100),
                            OrZero(cust[2]),
                            FDivToDecimal(OrZero(cust[3]), 100)),
          display |-> [name |-> "Custom", args |-> cust]]
    ELSE IF name \in DOMAIN PREDEFINED_SCENARIOS
    THEN [shocks |-> PREDEFINED_SCENARIOS[name][1],
          display |-> [name |-> name, args |-> <<>>]]
    ELSE [shocks |-> Shocks(0, 0, 0),
          display |-> [name |-> "None (Baseline)", args |-> <<>>]]

Column(df, c) == [i \in 1..Len(df) |-> df[i][c]]

\* groupby("AssetClass") sorts the groups by key
GroupOrder == <<"Commodity", "Equity", "FX", "Fixed Income">>

\* sum / count
FDivCount(a, n) == IF a < 0 THEN -Round((-a) \div n) ELSE Round(a \div n)

\* Lines 315-323: one row per asset class that has positions
RECURSIVE SummaryRows(_, _)
SummaryRows(df, k) ==
    IF k > Len(GroupOrder) THEN <<>>
    ELSE LET InGroup(row) == row.AssetClass = GroupOrder[k]
             pnl == Column(SelectSeq(df, InGroup), "ScenarioPnL")
         IN  (IF Len(pnl) = 0 THEN <<>>
              ELSE <<[AssetClass |-> GroupOrder[k],
                      Total_PnL |-> FSum(pnl),
                      Avg_PnL |-> Some(FDivCount(FSum(pnl), Len(pnl))),
                      N_Positions |-> Len(pnl)]>>)
             \o SummaryRows(df, k + 1)

\* Lines 325-333: the summary with the total row appended
TotalRow(summary) ==
    [AssetClass |-> "**TOTAL**",
     Total_PnL |-> FSum(Column(summary, "Total_PnL")),
     Avg_PnL |-> None,
     N_Positions |-> IntSum(Column(summary, "N_Positions"))]

SummaryDf(df_results) ==
    CHOOSE summary_df \in
        {summary \o <<TotalRow(summary)>> :
            summary \in {SummaryRows(v, 1) : v \in {df_results}}} : TRUE

\* Line 272
TotalPnl(df_results) == FSum(Column(df_results, "ScenarioPnL"))

\* The reference of the frame generate_dummy_positions returns
NewFrame == 1

\* The handler from line 262 on, gen being what generate_dummy_positions gave
\* (the book and the state it left the generator in): what the handler leaves
\* in the session state, in the generator, and in its local variables.
HandlerOn(gen, portfolio, name, cust) ==
    LET resolved == ResolveShocks(name, cust)
        df_positions == NewFrame
        call == simulate_scenario_pnl([o \in {NewFrame} |-> gen.df], df_positions,
                                      resolved.shocks.spx_shock,
                                      resolved.shocks.rates_shock_bps,
                                      resolved.shocks.oil_shock)
        df_results == call.heap[call.ret]
    IN  [rng |-> gen.rng,
         book |-> gen.df,
         shocks |-> resolved.shocks,
         df_positions |-> df_positions,
         df_results |-> call.ret,
         heap |-> call.heap,
         raised |-> call.raised,
         scenario_results |->
             Some([portfolio |-> portfolio,
                   scenario_name |-> resolved.display,
                   summary_df |-> SummaryDf(df_results),
                   total_pnl |-> TotalPnl(df_results)]),
         last_run_portfolio |-> Some(portfolio),
         last_run_scenario_name |-> Some(resolved.display),
         last_custom_shocks |-> IF name = "Custom" THEN Some(cust) ELSE None]

\* The handler run with the generator in state r
RunHandler(r, portfolio, name, cust) ==
    HandlerOn(generate_dummy_positions(r, portfolio), portfolio, name, cust)

----------------------------------------------------------------------------
(* st.cache_data around generate_dummy_risk_history, called sequentially *)

\* Variant used to test the cache-stability claim: a cache that never hits
CacheLookupMiss(c, portfolio) == None

\* The cache's answer for a key: the stored frame, or None
CacheLookup(c, portfolio) == c[portfolio]

\* The decorated function called with the cache c, the miss log and the
\* generator state r: a hit returns the stored frame and touches nothing;
\* a miss runs the body, prints the miss and stores the frame.
generate_dummy_risk_history(c, log, r, portfolio) ==
    IF CacheLookup(c, portfolio) # None
    THEN [df |-> CacheLookup(c, portfolio)[1], cache |-> c, missLog |-> log, rng |-> r]
    ELSE LET body == HistoryBody(r, portfolio)
         IN  [df |-> body.df,
              cache |-> [c EXCEPT ![portfolio] = Some(body.df)],
              missLog |-> [log EXCEPT ![portfolio] = @ + 1],
              rng |-> body.rng]

----------------------------------------------------------------------------
(* The script, lines 116-392, run once per widget event of a session *)

Sessions == 1 .. NSessions

\* Values a number input is set to (percent, or basis points)
CustomValues == {-10, 0}

\* custom_spx_shock, custom_rates_shock, custom_oil_shock of lines 142-144
CustomDefaults == <<Some(0), Some(0), Some(0)>>

\* Lines 160-172
InitialSessionState ==
    [scenario_results |-> None,
     last_run_portfolio |-> None,
     last_run_scenario_name |-> None,
     last_custom_shocks |-> Some(CustomDefaults)]

\* Variant used to test the stored-results claim: the results are stored
\* without the record of the portfolio they were run for
StoredUnlabelled(h) ==
    [scenario_results |-> h.scenario_results,
     last_run_portfolio |-> None,
     last_run_scenario_name |-> h.last_run_scenario_name,
     last_custom_shocks |-> h.last_custom_shocks]

\* What the handler stores, lines 336-348
StoredBy(h) ==
    [scenario_results |-> h.scenario_results,
     last_run_portfolio |-> h.last_run_portfolio,
     last_run_scenario_name |-> h.last_run_scenario_name,
     last_custom_shocks |-> h.last_custom_shocks]

\* The log of generate_dummy_positions after a call for portfolio p gave book
Logged(log, p, book) ==
    [log EXCEPT ![p] = [books |-> @.books \cup {book}, repeated |-> @.books # {}]]

\* The state of the generator before the process's first draw
RngStart == {0, 4711}

\* A script thread's local variables: the widgets' values it runs with and
\* the draws of the generator call it is in
IdleLoc == [portfolio |-> 0, pressed |-> FALSE, n |-> 0, draws |-> <<>>]

Init ==
    /\ rng \in RngStart
    /\ cache = [p \in Portfolios |-> None]
    /\ missLog = [p \in Portfolios |-> 0]
    /\ computeLock = [p \in Portfolios |-> 0]
    /\ selected_portfolio = [s \in Sessions |-> 0]
    /\ scenario_name = [s \in Sessions |-> ScenarioKeys[1]]
    /\ custom = [s \in Sessions |-> CustomDefaults]
    /\ run_button = [s \in Sessions |-> FALSE]
    /\ session_state = [s \in Sessions |-> InitialSessionState]
    /\ df_hist = [s \in Sessions |-> None]
    /\ generated = [p \in Portfolios |-> [books |-> {}, repeated |-> FALSE]]
    /\ pc = [s \in Sessions |-> "idle"]
    /\ loc = [s \in Sessions |-> IdleLoc]
    /\ runs = [s \in Sessions |-> 0]
    /\ eng = None

\* One whole script run of session s with the widgets at sel, name, cust and
\* the button pressed or not
ScriptRun(s, sel, name, cust, pressed) ==
    \E hist \in {generate_dummy_risk_history(cache, missLog, rng, sel)} :
        /\ selected_portfolio' = [selected_portfolio EXCEPT ![s] = sel]
        /\ scenario_name' = [scenario_name EXCEPT ![s] = name]
        /\ custom' = [custom EXCEPT ![s] = cust]
        /\ run_button' = [run_button EXCEPT ![s] = pressed]
        /\ cache' = hist.cache
        /\ missLog' = hist.missLog
        /\ df_hist' = [df_hist EXCEPT ![s] = Some(hist.df)]
        /\ IF pressed
           THEN \E h \in {RunHandler(hist.rng, sel, name, cust)} :
                  /\ rng' = h.rng
                  /\ session_state' = [session_state EXCEPT ![s] = StoredBy(h)]
                  /\ generated' = Logged(generated, sel, h.book)
           ELSE /\ rng' = hist.rng
                /\ UNCHANGED <<session_state, generated>>
        /\ UNCHANGED <<computeLock, pc, loc, runs, eng>>

\* The page has been loaded: the script ran at least once
Loaded(s) == df_hist[s] # None

\* Page load, or the menu's Rerun: the script runs with the widgets as they are
Rerun(s) ==
    ScriptRun(s, selected_portfolio[s], scenario_name[s], custom[s], FALSE)

\* Lines 125-129
SelectPortfolio(s, p) ==
    /\ Loaded(s)
    /\ p # selected_portfolio[s]
    /\ ScriptRun(s, p, scenario_name[s], custom[s], FALSE)

\* Lines 135-155: the number inputs exist only under "Custom", and start at 0.0
SelectScenario(s, n) ==
    /\ Loaded(s)
    /\ n # scenario_name[s]
    /\ ScriptRun(s, selected_portfolio[s], n, CustomDefaults, FALSE)

\* Lines 145-155
EditCustom(s, k, v) ==
    /\ Loaded(s)
    /\ scenario_name[s] = "Custom"
    /\ custom[s][k] # Some(v)
    /\ ScriptRun(s, selected_portfolio[s], scenario_name[s],
                 [custom[s] EXCEPT ![k] = Some(v)], FALSE)

\* Line 158
PressRun(s) ==
    /\ Loaded(s)
    /\ ScriptRun(s, selected_portfolio[s], scenario_name[s], custom[s], TRUE)

\* The session whose script runs are serialised
Foreground == 1

Next ==
    \/ Rerun(Foreground)
    \/ \E p \in Portfolios : SelectPortfolio(Foreground, p)
    \/ \E n \in ScenarioNames : SelectScenario(Foreground, n)
    \/ \E k \in 1..3, v \in CustomValues : EditCustom(Foreground, k, v)
    \/ PressRun(Foreground)

Spec == Init /\ [][Next]_vars

----------------------------------------------------------------------------
(* The engine called directly: one call of simulate_scenario_pnl on a      *)
(* position book the caller supplies, or one run of the handler on a       *)
(* request the caller supplies.                                            *)

Row(class, mv, beta, dur, delta) ==
    [Ticker |-> 0, AssetClass |-> class, MarketValueUSD |-> mv,
     Beta_SPX |-> beta, Duration |-> dur, Delta_Oil |-> delta]

\* Positions a caller supplies: 1,000,000 USD at duration 4; 2,000,000 USD at
\* beta 1.2; a commodity; a bond with a beta; and two that break the data
\* model, with a market value of zero and below zero.
ExternalRows ==
    {Row("Fixed Income", 20, 0, 400, 0),
     Row("Equity", 40, 120, 0, 0),
     Row("Commodity", 7, 10, 0, 25),
     Row("Fixed Income", 33, 10, 650, 0),
     Row("Fixed Income", 0, 0, 400, 0),
     Row("Equity", -20, 120, 0, 0)}

PositionColumns ==
    {"Ticker", "AssetClass", "MarketValueUSD", "Beta_SPX", "Duration", "Delta_Oil"}

\* The frame without column c
DropColumn(df, c) ==
    [i \in 1..Len(df) |-> [k \in DOMAIN df[i] \ {c} |-> df[i][k]]]

\* Books of one or two positions, whole or with one column missing
ExternalBooks ==
    LET whole == {<<a>> : a \in ExternalRows}
                 \cup {<<a, b>> : a \in ExternalRows, b \in ExternalRows}
    IN  whole \cup {DropColumn(df, c) : df \in whole,
                                         c \in {"Duration", "MarketValueUSD", "AssetClass"}}

ExternalShocks ==
    {Shocks(spx, bps, oil) : spx \in {0, -1500}, bps \in {-75, 0, 100}, oil \in {0, 2000}}

\* A scenario name outside the library
UnlistedName == "Unlisted"

\* A custom input: a number, or missing
CustomInputs == {None} \cup {Some(v) : v \in CustomValues}

\* simulate_scenario_pnl(book, **shock) on a caller's book
EngineApply(book, shock) ==
    /\ eng = None
    /\ \E positions_df \in {NewFrame} :
       \E call \in {simulate_scenario_pnl([o \in {NewFrame} |-> book], positions_df,
                                          shock.spx_shock, shock.rates_shock_bps,
                                          shock.oil_shock)} :
           eng' = Some([op |-> "simulate_scenario_pnl",
                        shocks |-> shock,
                        positions |-> book,
                        raised |-> call.raised,
                        positions_after |-> call.heap[positions_df],
                        same_object |-> call.ret = positions_df,
                        result |-> call.heap[call.ret],
                        portfolio |-> 0, name |-> "", custom |-> <<>>,
                        display |-> None, summary_df |-> <<>>, total_pnl |-> 0])
    /\ UNCHANGED <<rng, cache, missLog, computeLock, selected_portfolio,
                   scenario_name, custom, run_button, session_state, df_hist,
                   generated, pc, loc, runs>>

\* The handler on a caller's request
EngineRun(portfolio, name, cust) ==
    /\ eng = None
    /\ \E h \in {RunHandler(rng, portfolio, name, cust)} :
           /\ eng' = Some([op |-> "run",
                           shocks |-> h.shocks,
                           positions |-> h.book,
                           raised |-> h.raised,
                           positions_after |-> h.heap[h.df_positions],
                           same_object |-> h.df_results = h.df_positions,
                           result |-> h.heap[h.df_results],
                           portfolio |-> portfolio, name |-> name, custom |-> cust,
                           display |-> h.last_run_scenario_name,
                           summary_df |-> h.scenario_results[1].summary_df,
                           total_pnl |-> h.scenario_results[1].total_pnl])
           /\ rng' = h.rng
    /\ UNCHANGED <<cache, missLog, computeLock, selected_portfolio,
                   scenario_name, custom, run_button, session_state, df_hist,
                   generated, pc, loc, runs>>

EngineNext ==
    \/ \E book \in ExternalBooks, shock \in ExternalShocks : EngineApply(book, shock)
    \/ \E p \in Portfolios, n \in ScenarioNames \cup {UnlistedName},
          cust \in [1..3 -> CustomInputs] : EngineRun(p, n, cust)

EngineSpec == Init /\ [][EngineNext]_vars

----------------------------------------------------------------------------
(* Two sessions at once.  Streamlit runs each session's script in a thread *)
(* of its own; the threads share np.random's generator and the cache, and  *)
(* may be switched between any two np.random calls.  A step is one line of *)
(* the script as far as the shared state goes.  pc names the line a thread *)
(* is at.  st.cache_data computes a missing value under a lock it keeps    *)
(* per key, and looks the key up again once it holds the lock.             *)

At(s, line) == pc[s] = line
Goto(s, line) == pc' = [pc EXCEPT ![s] = line]

\* A widget event of session s starts its script with the widgets at p, pressed
CStart(s, p, pressed) ==
    /\ At(s, "idle")
    /\ runs[s] < MaxRuns
    /\ runs' = [runs EXCEPT ![s] = @ + 1]
    /\ selected_portfolio' = [selected_portfolio EXCEPT ![s] = p]
    /\ run_button' = [run_button EXCEPT ![s] = pressed]
    /\ loc' = [loc EXCEPT ![s] = [IdleLoc EXCEPT !.portfolio = p, !.pressed = pressed]]
    /\ Goto(s, "line180")
    /\ UNCHANGED <<rng, cache, missLog, computeLock, scenario_name, custom,
                   session_state, df_hist, generated, eng>>

\* Line 180, the call of the cached function: a hit returns the entry
CHistLookup(s) ==
    /\ At(s, "line180")
    /\ IF CacheLookup(cache, loc[s].portfolio) # None
       THEN /\ df_hist' = [df_hist EXCEPT ![s] = CacheLookup(cache, loc[s].portfolio)]
            /\ Goto(s, "line244")
       ELSE /\ Goto(s, "lock")
            /\ UNCHANGED df_hist
    /\ UNCHANGED <<rng, cache, missLog, computeLock, selected_portfolio,
                   scenario_name, custom, run_button, session_state, generated,
                   loc, runs, eng>>

\* A miss: the thread takes the key's lock and looks again
CHistLock(s) ==
    /\ At(s, "lock")
    /\ computeLock[loc[s].portfolio] = 0
    /\ IF CacheLookup(cache, loc[s].portfolio) # None
       THEN /\ df_hist' = [df_hist EXCEPT ![s] = CacheLookup(cache, loc[s].portfolio)]
            /\ Goto(s, "line244")
            /\ UNCHANGED computeLock
       ELSE /\ computeLock' = [computeLock EXCEPT ![loc[s].portfolio] = s]
            /\ Goto(s, "line51")
            /\ UNCHANGED df_hist
    /\ UNCHANGED <<rng, cache, missLog, selected_portfolio, scenario_name, custom,
                   run_button, session_state, generated, loc, runs, eng>>

\* Lines 51-52: the miss is printed and the generator seeded
CHistSeed(s) ==
    /\ At(s, "line51")
    /\ missLog' = [missLog EXCEPT ![loc[s].portfolio] = @ + 1]
    /\ rng' = RandomSeed(HistorySeed(loc[s].portfolio))
    /\ Goto(s, "line58")
    /\ UNCHANGED <<cache, computeLock, selected_portfolio, scenario_name, custom,
                   run_button, session_state, df_hist, generated, loc, runs, eng>>

\* Lines 58, 60, 61: one np.random call, from the generator as it is now
CHistDraw(s) ==
    /\ At(s, "line58")
    /\ \E k \in {Len(loc[s].draws) + 1} :
         /\ loc' = [loc EXCEPT ![s].draws = Append(@, HistoryDraw(k, rng))]
         /\ Goto(s, IF k = 3 THEN "line63" ELSE "line58")
    /\ rng' = RngAdvance(rng, HistLen)
    /\ UNCHANGED <<cache, missLog, computeLock, selected_portfolio, scenario_name,
                   custom, run_button, session_state, df_hist, generated, runs, eng>>

\* Lines 57-75 and the return: the frame is built, stored under the key and
\* returned, and the lock released
CHistStore(s) ==
    /\ At(s, "line63")
    /\ \E df \in {HistoryFrame(loc[s].draws[1], loc[s].draws[2], loc[s].draws[3])} :
         /\ cache' = [cache EXCEPT ![loc[s].portfolio] = Some(df)]
         /\ df_hist' = [df_hist EXCEPT ![s] = Some(df)]
    /\ computeLock' = [computeLock EXCEPT ![loc[s].portfolio] = 0]
    /\ loc' = [loc EXCEPT ![s].draws = <<>>]
    /\ Goto(s, "line244")
    /\ UNCHANGED <<rng, missLog, selected_portfolio, scenario_name, custom,
                   run_button, session_state, generated, runs, eng>>

\* Line 244: without the button the script is done
CButton(s) ==
    /\ At(s, "line244")
    /\ Goto(s, IF loc[s].pressed THEN "line16" ELSE "idle")
    /\ UNCHANGED <<rng, cache, missLog, computeLock, selected_portfolio,
                   scenario_name, custom, run_button, session_state, df_hist,
                   generated, loc, runs, eng>>

\* Lines 15-16
CPosSeed(s) ==
    /\ At(s, "line16")
    /\ rng' = PositionsStart(rng, loc[s].portfolio)
    /\ Goto(s, "line17")
    /\ UNCHANGED <<cache, missLog, computeLock, selected_portfolio, scenario_name,
                   custom, run_button, session_state, df_hist, generated, loc,
                   runs, eng>>

\* Line 17
CPosCount(s) ==
    /\ At(s, "line17")
    /\ loc' = [loc EXCEPT ![s].n = RandInt(rng, MinPositions, MaxPositions)]
    /\ rng' = RngStep(rng)
    /\ Goto(s, "line19")
    /\ UNCHANGED <<cache, missLog, computeLock, selected_portfolio, scenario_name,
                   custom, run_button, session_state, df_hist, generated, runs, eng>>

\* Lines 19-32: the six np.random calls, from the generator as it is now.
\* They are taken in one step; a switch between two of them adds runs of the
\* kind a switch before line 19 already gives.
CPosDraw(s) ==
    /\ At(s, "line19")
    /\ loc' = [loc EXCEPT ![s].draws =
                  [k \in 1..6 |-> PositionsDraw(k, RngAdvance(rng, (k - 1) * loc[s].n),
                                                loc[s].n)]]
    /\ Goto(s, "line34")
    /\ rng' = RngAdvance(rng, 6 * loc[s].n)
    /\ UNCHANGED <<cache, missLog, computeLock, selected_portfolio, scenario_name,
                   custom, run_button, session_state, df_hist, generated, runs, eng>>

\* Lines 34-43 and 262-348: the book is built, run and the results stored
CPosFinish(s) ==
    /\ At(s, "line34")
    /\ \E book \in {PositionsFrame(loc[s].n, loc[s].draws[1], loc[s].draws[2],
                                     loc[s].draws[3], loc[s].draws[4],
                                     loc[s].draws[5], loc[s].draws[6])} :
       \E h \in {HandlerOn([df |-> book, rng |-> rng], loc[s].portfolio,
                            scenario_name[s], custom[s])} :
         /\ session_state' = [session_state EXCEPT ![s] = StoredBy(h)]
         /\ generated' = Logged(generated, loc[s].portfolio, book)
    /\ loc' = [loc EXCEPT ![s] = IdleLoc]
    /\ Goto(s, "idle")
    /\ UNCHANGED <<rng, cache, missLog, computeLock, selected_portfolio,
                   scenario_name, custom, run_button, df_hist, runs, eng>>

ConcNext ==
    \E s \in Sessions :
        \/ \E p \in Portfolios, pressed \in BOOLEAN : CStart(s, p, pressed)
        \/ CHistLookup(s)
        \/ CHistLock(s)
        \/ CHistSeed(s)
        \/ CHistDraw(s)
        \/ CHistStore(s)
        \/ CButton(s)
        \/ CPosSeed(s)
        \/ CPosCount(s)
        \/ CPosDraw(s)
        \/ CPosFinish(s)

ConcSpec == Init /\ [][ConcNext]_vars

----------------------------------------------------------------------------
(* Properties *)

\* A direct call of simulate_scenario_pnl has returned
SimulateReturned ==
    eng # None /\ eng[1].op = "simulate_scenario_pnl" /\ ~eng[1].raised

\* A direct run of the handler has ended
HandlerRan == eng # None /\ eng[1].op = "run"

AllPnLZero(df) == \A i \in 1..Len(df) : df[i].ScenarioPnL = 0

\* C1: when simulate_scenario_pnl returns, the position frame the caller
\* passed is as it was before the call (no column added, no value changed)
\* and the frame returned is another object than the one passed.
C1_SimulateIsPure ==
    SimulateReturned =>
        /\ eng[1].positions_after = eng[1].positions
        /\ ~eng[1].same_object

\* C2: for every run, the sum of ScenarioPnL over the positions, the
\* total_pnl stored in the results and the Total PnL of the **TOTAL** row
\* (the sum of the per-asset-class sums) are equal.
C2_Conservation ==
    HandlerRan =>
        /\ FSum(Column(eng[1].result, "ScenarioPnL")) = eng[1].total_pnl
        /\ eng[1].total_pnl = eng[1].summary_df[Len(eng[1].summary_df)].Total_PnL

\* C3: in a sequential run, once the history of a portfolio is in the cache
\* the entry never changes and its body never runs again (at most one cache
\* miss per portfolio); every call returns the cached frame, and a call that
\* hits the cache leaves the random generator as it was.
C3_CacheStability ==
    /\ [](\A p \in Portfolios : missLog[p] <= 1)
    /\ [](Loaded(Foreground) =>
            df_hist[Foreground] = cache[selected_portfolio[Foreground]])
    /\ [][\A p \in Portfolios :
            cache[p] # None => cache'[p] = cache[p] /\ missLog'[p] = missLog[p]]_vars
    /\ [][(cache[selected_portfolio'[Foreground]] # None /\ ~run_button'[Foreground])
            => rng' = rng]_vars

\* The history of portfolio 0 was computed, then positions of portfolio 1
\* were drawn, then the history of portfolio 0 was asked for again
C3_SecondCallSeen ==
    /\ missLog[0] = 1
    /\ generated[1].books # {}
    /\ selected_portfolio[Foreground] = 0
    /\ ~run_button[Foreground]
    /\ df_hist[Foreground] = cache[0]

\* C4: with sessions running at once, every history a caller got is the
\* cache's entry for its portfolio, the body ran at most once per portfolio,
\* and every entry is the frame a lone sequential call gives.
C4_CacheSafeUnderConcurrency ==
    /\ \A p \in Portfolios : missLog[p] <= 1
    /\ \A s \in Sessions :
          (df_hist[s] # None /\ pc[s] = "idle")
              => df_hist[s] = cache[selected_portfolio[s]]
    /\ \A p \in Portfolios : cache[p] # None => cache[p][1] = HistoryBody(0, p).df

C6_RateShockSign ==
    (SimulateReturned /\ eng[1].shocks.spx_shock = 0 /\ eng[1].shocks.oil_shock = 0) =>
        \A i \in 1..Len(eng[1].positions) :
            LET row == eng[1].positions[i]
                pnl == eng[1].result[i].ScenarioPnL
                bps == eng[1].shocks.rates_shock_bps
                exact == row.MarketValueUSD * row.Duration * bps
            IN  (row.Duration > 0 /\ row.MarketValueUSD > 0) =>
                    /\ bps > 0 => pnl < 0
                    /\ bps < 0 => pnl > 0
                    /\ Abs(pnl + exact) <= Abs(exact) \div 2^(SigBits - 2)
                    /\ (row.MarketValueUSD = 20 /\ row.Duration = 400 /\ bps = 100)
                           => pnl = -800000

\* 1,000,000 USD at duration 4 was shocked by +100 bps alone
C6_RatesUpSeen ==
    /\ SimulateReturned
    /\ eng[1].shocks = Shocks(0, 100, 0)
    /\ eng[1].positions[1].MarketValueUSD = 20
    /\ eng[1].positions[1].Duration = 400
    /\ eng[1].result[1].ScenarioPnL < 0

\* C7: a run asked for with a scenario name that is not in
\* PREDEFINED_SCENARIOS does not fail: its shocks are all zero, the name it
\* stores is "None (Baseline)", and every position's ScenarioPnL is 0.
C7_UnlistedNameFallsBack ==
    (HandlerRan /\ eng[1].name \notin DOMAIN PREDEFINED_SCENARIOS) =>
        /\ ~eng[1].raised
        /\ eng[1].shocks = Shocks(0, 0, 0)
        /\ eng[1].display = Some([name |-> "None (Baseline)", args |-> <<>>])
        /\ AllPnLZero(eng[1].result)

\* A run with an unlisted name has ended, with non-zero custom inputs at hand
C7_UnlistedRunSeen ==
    /\ HandlerRan
    /\ eng[1].name = UnlistedName
    /\ eng[1].custom[1] = Some(-10)
    /\ Len(eng[1].result) >= MinPositions

\* A position of the book breaks the data model: a column is missing or
\* its MarketValueUSD is not above zero
BreaksContract(df) ==
    \E i \in 1..Len(df) :
        \/ ~(PositionColumns \subseteq DOMAIN df[i])
        \/ df[i].MarketValueUSD <= 0

\* C8: simulate_scenario_pnl on a caller's book in which a position has
\* MarketValueUSD <= 0 or lacks a required column raises, and returns no
\* P&L.
C8_FailFast ==
    (eng # None /\ eng[1].op = "simulate_scenario_pnl"
        /\ BreaksContract(eng[1].positions)) => eng[1].raised

\* C9: under "Custom" the shocks handed to the engine are spx_shock =
\* custom_spx_shock / 100 and oil_shock = custom_oil_shock / 100, with
\* rates_shock_bps as entered; an input that is missing counts as 0.0, and
\* a run with all three missing gives the frame the Baseline run gives.
C9_CustomResolution ==
    (HandlerRan /\ eng[1].name = "Custom") =>
        /\ eng[1].shocks.spx_shock * 100 = OrZero(eng[1].custom[1]) * DecimalScale
        /\ eng[1].shocks.oil_shock * 100 = OrZero(eng[1].custom[3]) * DecimalScale
        /\ eng[1].shocks.rates_shock_bps = OrZero(eng[1].custom[2])
        /\ eng[1].custom = <<None, None, None>> =>
              /\ eng[1].shocks = Shocks(0, 0, 0)
              /\ eng[1].result =
                     RunHandler(0, eng[1].portfolio, "None (Baseline)",
                                CustomDefaults).heap[NewFrame]

\* A Custom run with -10 percent on SPX, rates missing, 0 percent on oil
C9_CustomRunSeen ==
    /\ HandlerRan
    /\ eng[1].name = "Custom"
    /\ eng[1].custom = <<Some(-10), None, Some(0)>>
    /\ eng[1].shocks.spx_shock = -1000
    /\ eng[1].total_pnl # 0

\* What the session has stored of its last run
LastRun(st) ==
    <<st.scenario_results, st.last_run_portfolio, st.last_run_scenario_name>>

\* C10: a script run without the button pressed leaves scenario_results,
\* last_run_portfolio and last_run_scenario_name as they are; after a run
\* with the button pressed scenario_results.portfolio, last_run_portfolio
\* and the selected portfolio are the same, and the results stored are
\* always labelled as last_run_portfolio and last_run_scenario_name say.
C10_ResultsChangeOnlyOnRun ==
    /\ [](\A s \in Sessions :
            run_button[s] =>
                /\ session_state[s].scenario_results # None
                /\ session_state[s].scenario_results[1].portfolio = selected_portfolio[s]
                /\ session_state[s].last_run_portfolio = Some(selected_portfolio[s]))
    /\ [](\A s \in Sessions :
            session_state[s].scenario_results # None =>
                /\ session_state[s].last_run_portfolio =
                       Some(session_state[s].scenario_results[1].portfolio)
                /\ session_state[s].last_run_scenario_name =
                       Some(session_state[s].scenario_results[1].scenario_name))
    /\ [][\A s \in Sessions :
            ~run_button'[s] => LastRun(session_state'[s]) = LastRun(session_state[s])]_vars

\* Results of a run for one portfolio are stored while another is selected
C10_StaleResultsSeen ==
    /\ session_state[Foreground].scenario_results # None
    /\ session_state[Foreground].scenario_results[1].portfolio
          # selected_portfolio[Foreground]
    /\ ~run_button[Foreground]

====
